---- MODULE Spec2Model ----
(***************************************************************************)
(* Model of osm_opensidewalks/osm_osw/osm/osm_graph.py: the OSMGraph       *)
(* container (a networkx MultiDiGraph), its builder (from_pbf), the        *)
(* topology simplifier (simplify), the geometry constructor                *)
(* (construct_geometries), filter_edges and the GeoJSON codec.             *)
(*                                                                         *)
(* A graph is a record                                                     *)
(*   nodes : the node table in insertion order (G.nodes / G._node keys)    *)
(*   attr  : node -> <<>> (empty attribute dict) or <<lon, lat>>           *)
(*   succ  : node -> its successors in adjacency insertion order           *)
(*   ed    : <<u, v>> -> the key dict of the parallel edges u -> v, as a   *)
(*           sequence: entry i is the edge with key i-1                    *)
(* An edge attribute dict is a record; "ndref" holds a reference into the  *)
(* heap `lists` of Python list objects (0 = key absent), because simplify  *)
(* and filter_edges copy the dict but share the list.  geometry = <<>> and *)
(* length = -1 stand for an absent key.                                    *)
(***************************************************************************)
EXTENDS Integers, Sequences, FiniteSets, TLC

\* ---- bounds of the exploration ----
MaxNode == 4        \* node references are 1..MaxNode
MaxWays == 2        \* ways in the decoded file
MaxEdges == 3       \* segments over all ways of the file
MaxSimplify == 2    \* calls of simplify in a row

Nodes == 1..MaxNode
TagValues == {"footway", "road"}
Filters == {"None", "footway"}
Predicates == {"all", "way1", "seg0"}

VARIABLES way_filter, ways, G, lists, prev, ops, err

vars == <<way_filter, ways, G, lists, prev, ops, err>>

\* ---- small helpers ----
Range(s) == {s[i] : i \in 1..Len(s)}

Last(s) == s[Len(s)]

Min(a, b) == IF a < b THEN a ELSE b

Abs(x) == IF x < 0 THEN -x ELSE x

RECURSIVE SeqMax(_)
SeqMax(s) == IF s = <<>> THEN 0
             ELSE LET m == SeqMax(Tail(s)) IN IF Head(s) > m THEN Head(s) ELSE m

\* ---- the decoder's view of the file ----
\* locations=True: every node reference resolves to its (lon, lat)
Location(ref) == <<10 * ref, ref * ref>>

\* OSWNormalizer(tags).normalize(): an opaque attribute mapping
Normalize(tags) == tags

\* way_filter(w.tags), None meaning "accept all"
Accepts(f, tags) == IF f = "None" THEN TRUE ELSE tags = f

\* ---- networkx.MultiDiGraph ----
EmptyGraph == [nodes |-> <<>>,
               attr  |-> [n \in Nodes |-> <<>>],
               succ  |-> [n \in Nodes |-> <<>>],
               ed    |-> [p \in Nodes \X Nodes |-> <<>>]]

HasNode(g, n) == n \in Range(g.nodes)

\* G.add_node(n, **a): register n, update its attribute dict with a
add_node(g, n, a) ==
    [g EXCEPT !.nodes = IF HasNode(g, n) THEN @ ELSE Append(@, n),
              !.attr[n] = IF a = <<>> THEN (IF HasNode(g, n) THEN @ ELSE <<>>) ELSE a]

\* G.add_edge(u, v, **d): nodes u, v are created on demand, the edge gets
\* the next free key of the pair's key dict
add_edge(g, u, v, d) ==
    LET g1 == add_node(add_node(g, u, <<>>), v, <<>>)
    IN [g1 EXCEPT !.succ[u] = IF g1.ed[<<u, v>>] = <<>> THEN Append(@, v) ELSE @,
                  !.ed[<<u, v>>] = Append(@, d)]

RemoveFromSeq(s, x) == SelectSeq(s, LAMBDA y : y # x)

\* G.remove_edge(u, v): pops the most recently added parallel edge; the
\* adjacency entry goes when the key dict is empty
remove_edge(g, u, v) ==
    LET kd == g.ed[<<u, v>>]
        rest == SubSeq(kd, 1, Len(kd) - 1)
    IN [g EXCEPT !.ed[<<u, v>>] = rest,
                 !.succ[u] = IF rest = <<>> THEN RemoveFromSeq(@, v) ELSE @]

\* list(G.successors(n)), list(G.predecessors(n)): neighbour NODES
successors(g, n) == g.succ[n]

predecessors(g, n) == {u \in Range(g.nodes) : g.ed[<<u, n>>] # <<>>}

\* G.edges(data=True): by node, by successor, by key
RECURSIVE KeyEdges(_, _, _, _)
KeyEdges(g, u, v, k) ==
    IF k > Len(g.ed[<<u, v>>]) THEN <<>>
    ELSE <<[u |-> u, v |-> v, key |-> k, d |-> g.ed[<<u, v>>][k]]>> \o KeyEdges(g, u, v, k + 1)

RECURSIVE NbrEdges(_, _, _)
NbrEdges(g, u, j) ==
    IF j > Len(g.succ[u]) THEN <<>>
    ELSE KeyEdges(g, u, g.succ[u][j], 1) \o NbrEdges(g, u, j + 1)

RECURSIVE EdgesFrom(_, _)
EdgesFrom(g, i) ==
    IF i > Len(g.nodes) THEN <<>>
    ELSE NbrEdges(g, g.nodes[i], 1) \o EdgesFrom(g, i + 1)

Edges(g) == EdgesFrom(g, 1)

\* ---- OSMGraph.from_pbf: OSMParser.way ----
RECURSIVE WayLoop(_, _, _, _)
WayLoop(st, w, d2, i) ==
    IF i >= Len(w.nodes) - 1 THEN st
    ELSE LET u_ref == w.nodes[i + 1]
             v_ref == w.nodes[i + 2]
             heap == Append(st.lists, <<u_ref, v_ref>>)
             d3 == [d2 EXCEPT !.segment = i, !.ndref = Len(heap)]
             g1 == add_edge(st.G, u_ref, v_ref, d3)
             g2 == add_node(g1, u_ref, Location(u_ref))
             g3 == add_node(g2, v_ref, Location(v_ref))
         IN WayLoop([G |-> g3, lists |-> heap], w, d2, i + 1)

\* the filter is not consulted
way_unfiltered(st, f, w) ==
    LET d2 == [osm_id |-> w.id, tag |-> Normalize(w.tags), segment |-> 0,
               ndref |-> 0, geometry |-> <<>>, length |-> -1]
    IN WayLoop(st, w, d2, 0)

way(st, f, w) ==
    IF ~Accepts(f, w.tags) THEN st
    ELSE LET d2 == [osm_id |-> w.id, tag |-> Normalize(w.tags), segment |-> 0,
                    ndref |-> 0, geometry |-> <<>>, length |-> -1]
         IN WayLoop(st, w, d2, 0)

\* ---- OSMGraph.simplify ----
\* first loop: the pass-through test of one node
IsCandidate(g, node) ==
    /\ Cardinality(predecessors(g, node)) = 1
    /\ Len(successors(g, node)) = 1
    /\ LET node_in == CHOOSE u \in predecessors(g, node) : TRUE
           node_out == successors(g, node)[1]
           edge_in == g.ed[<<node_in, node>>][1]
           edge_out == g.ed[<<node, node_out>>][1]
       IN edge_in.osm_id = edge_out.osm_id

NodeData(g, node) ==
    LET node_in == CHOOSE u \in predecessors(g, node) : TRUE
        edge_in == g.ed[<<node_in, node>>][1]
    IN [way |-> edge_in.osm_id, ni |-> node_in, n |-> node,
        no |-> successors(g, node)[1], s |-> edge_in.segment]

RECURSIVE CandidatesFrom(_, _)
CandidatesFrom(g, i) ==
    IF i > Len(g.nodes) THEN <<>>
    ELSE (IF IsCandidate(g, g.nodes[i]) THEN <<NodeData(g, g.nodes[i])>> ELSE <<>>)
         \o CandidatesFrom(g, i + 1)

Candidates(g) == CandidatesFrom(g, 1)

\* remove_nodes: way_id -> node_data list, keys in order of first insertion
RECURSIVE WayOrder(_)
WayOrder(c) ==
    IF c = <<>> THEN <<>>
    ELSE <<Head(c).way>> \o WayOrder(SelectSeq(Tail(c), LAMBDA x : x.way # Head(c).way))

\* sorted(node_data, key=lambda x: x[3]): stable
RECURSIVE InsertBySegment(_, _)
InsertBySegment(s, x) ==
    IF s = <<>> THEN <<x>>
    ELSE IF x.s < Head(s).s THEN <<x>> \o s
    ELSE <<Head(s)>> \o InsertBySegment(Tail(s), x)

\* the candidates are left in node order
SortBySegment_unsorted(s) == s

RECURSIVE SortBySegment(_)
SortBySegment(s) ==
    IF s = <<>> THEN <<>>
    ELSE InsertBySegment(SortBySegment(SubSeq(s, 1, Len(s) - 1)), Last(s))

\* groups: receiving edge -> nodes of a run of neighbouring segments
GroupIndex(groups, e) ==
    IF \E i \in 1..Len(groups) : groups[i].edge = e
    THEN CHOOSE i \in 1..Len(groups) : groups[i].edge = e
    ELSE 0

RECURSIVE GroupLoop(_, _, _, _, _)
GroupLoop(groups, cur, last_s, sorted, i) ==
    IF i > Len(sorted) THEN groups
    ELSE LET x == sorted[i]
             fresh == (x.s - last_s) # 1
             receiving_edge == IF fresh THEN <<x.ni, x.n>> ELSE cur
             at == GroupIndex(groups, receiving_edge)
             g1 == IF ~fresh THEN groups
                   ELSE IF at = 0 THEN Append(groups, [edge |-> receiving_edge, nodes |-> <<>>])
                   ELSE [groups EXCEPT ![at].nodes = <<>>]
             at1 == GroupIndex(g1, receiving_edge)
             g2 == [g1 EXCEPT ![at1].nodes = Append(@, x.n)]
         IN GroupLoop(g2, receiving_edge, x.s, sorted, i + 1)

Groups(sorted) == GroupLoop(<<>>, <<0, 0>>, -10, sorted, 1)

\* inner loop of a group: extend the receiving edge's ndref by the node that
\* follows, and remove the edge to it
RECURSIVE MergeLoop(_, _, _, _)
MergeLoop(st, ndref, nodes, i) ==
    IF i > Len(nodes) \/ st.err # "none" THEN st
    ELSE LET node == nodes[i]
         IN IF successors(st.G, node) = <<>>
            THEN [st EXCEPT !.err = "StopIteration"]
            ELSE LET following_node == successors(st.G, node)[1]
                 IN MergeLoop([st EXCEPT !.lists[ndref] = Append(@, following_node),
                                         !.G = remove_edge(st.G, node, following_node)],
                              ndref, nodes, i + 1)

RemoveGroup(st, grp) ==
    LET u == grp.edge[1]
        v == grp.edge[2]
    IN IF st.G.ed[<<u, v>>] = <<>> THEN [st EXCEPT !.err = "KeyError"]
       ELSE LET edge_data == st.G.ed[<<u, v>>][1]
                st1 == MergeLoop(st, edge_data.ndref, grp.nodes, 1)
            IN IF st1.err # "none" THEN st1
               ELSE [st1 EXCEPT !.G = add_edge(st1.G, u, Last(grp.nodes), edge_data)]

RECURSIVE RemoveGroups(_, _, _)
RemoveGroups(st, groups, i) ==
    IF i > Len(groups) \/ st.err # "none" THEN st
    ELSE RemoveGroups(RemoveGroup(st, groups[i]), groups, i + 1)

RECURSIVE RemoveWays(_, _, _, _)
RemoveWays(st, cands, order, i) ==
    IF i > Len(order) \/ st.err # "none" THEN st
    ELSE LET node_data == SelectSeq(cands, LAMBDA x : x.way = order[i])
             groups == Groups(SortBySegment(node_data))
         IN RemoveWays(RemoveGroups(st, groups, 1), cands, order, i + 1)

simplify(st) ==
    LET cands == Candidates(st.G)
    IN RemoveWays(st, cands, WayOrder(cands), 1)

\* ---- OSMGraph.construct_geometries ----
\* self.G._node[ref]["lon"], ["lat"] succeed
Resolves(g, ref) == HasNode(g, ref) /\ g.attr[ref] # <<>>

\* LineString(coords): the coordinate pairs of the references, in order
LineString(g, refs) == [j \in 1..Len(refs) |-> g.attr[refs[j]]]

\* round(self.geod.geometry_length(geometry), 1): the sum of the distances
\* of consecutive points (a grid distance stands in for the ellipsoid's)
RECURSIVE geometry_length(_)
geometry_length(c) ==
    IF Len(c) < 2 THEN 0
    ELSE Abs(c[2][1] - c[1][1]) + Abs(c[2][2] - c[1][2]) + geometry_length(Tail(c))

RECURSIVE GeometryLoop(_, _, _)
GeometryLoop(st, es, i) ==
    IF i > Len(es) \/ st.err # "none" THEN st
    ELSE LET u == es[i].u
             v == es[i].v
             k == es[i].key
             d == st.G.ed[<<u, v>>][k]
         IN IF d.ndref = 0 THEN [st EXCEPT !.err = "KeyError"]
            ELSE LET refs == st.lists[d.ndref]
                 IN IF \E j \in 1..Len(refs) : ~Resolves(st.G, refs[j])
                    THEN [st EXCEPT !.err = "KeyError"]
                    ELSE LET geometry == LineString(st.G, refs)
                             d1 == [d EXCEPT !.geometry = geometry,
                                             !.length = geometry_length(geometry),
                                             !.ndref = 0]
                         IN GeometryLoop([st EXCEPT !.G.ed[<<u, v>>][k] = d1], es, i + 1)

\* a failing pass is rolled back
construct_geometries_atomic(st) ==
    LET r == GeometryLoop(st, Edges(st.G), 1)
    IN IF r.err # "none" THEN [st EXCEPT !.err = r.err] ELSE r

construct_geometries(st) == GeometryLoop(st, Edges(st.G), 1)

\* ---- OSMGraph.filter_edges ----
\* func(u, v, d): the predicates the caller may pass
Holds(p, u, v, d) ==
    CASE p = "all" -> TRUE
      [] p = "way1" -> d.osm_id = 1
      [] p = "seg0" -> d.segment = 0

RECURSIVE FilterLoop(_, _, _, _)
FilterLoop(g2, es, p, i) ==
    IF i > Len(es) THEN g2
    ELSE FilterLoop(IF Holds(p, es[i].u, es[i].v, es[i].d)
                    THEN add_edge(g2, es[i].u, es[i].v, es[i].d)
                    ELSE g2,
                    es, p, i + 1)

RECURSIVE CopyNodes(_, _, _)
CopyNodes(g2, g, i) ==
    IF i > Len(g2.nodes) THEN g2
    ELSE CopyNodes(add_node(g2, g2.nodes[i], g.attr[g2.nodes[i]]), g, i + 1)

\* every node of the source is copied
filter_edges_allnodes(g, p) ==
    LET g2 == FilterLoop(EmptyGraph, Edges(g), p, 1)
    IN [g2 EXCEPT !.nodes = g.nodes, !.attr = g.attr]

filter_edges(g, p) == CopyNodes(FilterLoop(EmptyGraph, Edges(g), p, 1), g, 1)

\* ---- OSMGraph.to_geojson / from_geojson ----
\* shapely.geometry.mapping and shape
mapping(geometry) == [type |-> "LineString", coordinates |-> geometry]

shape(geo) == geo.coordinates

\* the endpoint keys are exchanged
Feature_swapped(e) ==
    [type |-> "Feature",
     geometry |-> mapping(e.d.geometry),
     properties |-> ("_u" :> e.v) @@ ("_v" :> e.u) @@ ("osm_id" :> e.d.osm_id)
                    @@ ("tag" :> e.d.tag) @@ ("segment" :> e.d.segment)
                    @@ ("length" :> e.d.length)]

\* one feature per edge: the attribute dict without "geometry", plus _u, _v
Feature(e) ==
    [type |-> "Feature",
     geometry |-> mapping(e.d.geometry),
     properties |-> ("_u" :> e.u) @@ ("_v" :> e.v) @@ ("osm_id" :> e.d.osm_id)
                    @@ ("tag" :> e.d.tag) @@ ("segment" :> e.d.segment)
                    @@ ("length" :> e.d.length)]

\* d_copy.pop("geometry") raises KeyError on an edge without geometry
CanExport(g) == \A i \in 1..Len(Edges(g)) : Edges(g)[i].d.geometry # <<>>

to_geojson(g) ==
    [type |-> "FeatureCollection",
     features |-> [i \in 1..Len(Edges(g)) |-> Feature(Edges(g)[i])]]

RECURSIVE LoadLoop(_, _, _)
LoadLoop(g, features, i) ==
    IF i > Len(features) THEN g
    ELSE LET props == features[i].properties
             d == [osm_id |-> props["osm_id"], tag |-> props["tag"],
                   segment |-> props["segment"], ndref |-> 0,
                   geometry |-> shape(features[i].geometry),
                   length |-> props["length"]]
         IN LoadLoop(add_edge(g, props["_u"], props["_v"], d), features, i + 1)

from_geojson(fc) == LoadLoop(EmptyGraph, fc.features, 1)

\* ---- the decoded file ----
\* node references are opaque identities, so a file is enumerated up to
\* renaming: a reference not seen before is the next unused one; a way does
\* not list the same node twice in a row
Fresh(seen, s) == (IF SeqMax(s) > seen THEN SeqMax(s) ELSE seen) + 1

RECURSIVE NodeSeqs(_, _)
NodeSeqs(seen, len) ==
    IF len = 0 THEN {<<>>}
    ELSE UNION {{Append(s, n) : n \in {m \in 1..Min(MaxNode, Fresh(seen, s)) : s = <<>> \/ m # Last(s)}}
                : s \in NodeSeqs(seen, len - 1)}

RECURSIVE Segments(_)
Segments(ws) == IF ws = <<>> THEN 0 ELSE (Len(Head(ws).nodes) - 1) + Segments(Tail(ws))

RECURSIVE Seen(_)
Seen(ws) ==
    IF ws = <<>> THEN 0
    ELSE LET m == Seen(Tail(ws)) IN IF SeqMax(Head(ws).nodes) > m THEN SeqMax(Head(ws).nodes) ELSE m

\* without a filter the tags are only copied onto the edges, so one value is
\* enumerated; a way of a single node has no segment and is left out
TagsUnder(f) == IF f = "None" THEN {"footway"} ELSE TagValues

NextWays(f, ws) ==
    {[id |-> Len(ws) + 1, tags |-> t, nodes |-> ns] :
        t \in TagsUnder(f),
        ns \in UNION {NodeSeqs(Seen(ws), len) : len \in 2..(MaxEdges - Segments(ws) + 1)}}

\* ---- state machine ----
State == [G |-> G, lists |-> lists, err |-> err]

Op(name, arg) == [op |-> name, arg |-> arg]

Called(name) == \E i \in 1..Len(ops) : ops[i].op = name

Calls(name) == Len(SelectSeq(ops, LAMBDA o : o.op = name))

Init ==
    /\ way_filter \in Filters
    /\ ways = <<>>
    /\ G = EmptyGraph
    /\ lists = <<>>
    /\ prev = [G |-> EmptyGraph, lists |-> <<>>]
    /\ ops = <<>>
    /\ err = "none"

\* the parser delivers the next way of the file
Way ==
    /\ ops = <<>>
    /\ Len(ways) < MaxWays
    /\ \E w \in NextWays(way_filter, ways) :
         LET st == way([G |-> G, lists |-> lists], way_filter, w)
         IN /\ ways' = Append(ways, w)
            /\ G' = st.G
            /\ lists' = st.lists
    /\ prev' = [G |-> G, lists |-> lists]
    /\ UNCHANGED <<way_filter, ops, err>>

Simplify ==
    /\ err = "none"
    /\ Len(ops) < MaxSimplify
    /\ \A i \in 1..Len(ops) : ops[i].op = "simplify"
    /\ LET st == simplify(State)
       IN /\ G' = st.G
          /\ lists' = st.lists
          /\ err' = st.err
    /\ prev' = [G |-> G, lists |-> lists]
    /\ ops' = Append(ops, Op("simplify", ""))
    /\ UNCHANGED <<way_filter, ways>>

ConstructGeometries ==
    /\ err = "none"
    /\ ~Called("construct_geometries")
    /\ ~Called("from_geojson")
    /\ Calls("simplify") <= 1
    /\ LET st == construct_geometries(State)
       IN /\ G' = st.G
          /\ lists' = st.lists
          /\ err' = st.err
    /\ prev' = [G |-> G, lists |-> lists]
    /\ ops' = Append(ops, Op("construct_geometries", ""))
    /\ UNCHANGED <<way_filter, ways>>

FilterEdges ==
    /\ err = "none"
    /\ ~Called("filter_edges")
    /\ ~Called("from_geojson")
    /\ Calls("simplify") <= 1
    /\ \E p \in Predicates :
         /\ G' = filter_edges(G, p)
         /\ ops' = Append(ops, Op("filter_edges", p))
    /\ prev' = [G |-> G, lists |-> lists]
    /\ UNCHANGED <<way_filter, ways, lists, err>>

\* to_geojson writes the file, from_geojson reads it back
RoundTrip ==
    /\ err = "none"
    /\ ~Called("from_geojson")
    /\ Calls("simplify") <= 1
    /\ IF CanExport(G)
       THEN /\ G' = from_geojson(to_geojson(G))
            /\ err' = "none"
       ELSE /\ G' = G
            /\ err' = "KeyError"
    /\ prev' = [G |-> G, lists |-> lists]
    /\ ops' = Append(ops, Op("from_geojson", ""))
    /\ UNCHANGED <<way_filter, ways, lists>>

Next == Way \/ Simplify \/ ConstructGeometries \/ FilterEdges \/ RoundTrip

Spec == Init /\ [][Next]_vars

\* ---- vocabulary of the properties ----
Accepted(w) == Accepts(way_filter, w.tags)

Chain(d) == lists[d.ndref]

Distinct(s) == \A i, j \in 1..Len(s) : i # j => s[i] # s[j]

EdgesOfWay(g, id) == SelectSeq(Edges(g), LAMBDA e : e.d.osm_id = id)

SegmentOfWay(g, id, seg) == SelectSeq(EdgesOfWay(g, id), LAMBDA e : e.d.segment = seg)

Touches(w, x) == Accepted(x) /\ Len(x.nodes) >= 2 /\ Range(w.nodes) \cap Range(x.nodes) # {}

Alone(i) == \A j \in 1..Len(ways) : j # i => ~Touches(ways[i], ways[j])

Incident(g, n) == {e \in Range(Edges(g)) : e.u = n \/ e.v = n}

Shared(g, n) == \E e1, e2 \in Incident(g, n) : e1.d.osm_id # e2.d.osm_id

LastOp == IF ops = <<>> THEN "" ELSE Last(ops).op

Simplified == ops = <<Op("simplify", "")>>

RECURSIVE AcceptedSegments(_)
AcceptedSegments(ws) ==
    IF ws = <<>> THEN 0
    ELSE (IF Accepted(Head(ws)) THEN Len(Head(ws).nodes) - 1 ELSE 0) + AcceptedSegments(Tail(ws))

ClosedWay(w) ==
    /\ Len(w.nodes) >= 2
    /\ w.nodes[1] = Last(w.nodes)
    /\ Distinct(Tail(w.nodes))

\* C1: an accepted way [n0..nk] of k+1 distinct nodes (k >= 1) that no other
\* way touches is, after build and simplify, carried by exactly one edge,
\* whose ndref is [n0..nk]; it is the only edge when it is the only way
C1_SimplifyCollapsesWay ==
    Simplified =>
        \A i \in 1..Len(ways) :
            (Accepted(ways[i]) /\ Len(ways[i].nodes) >= 2 /\ Distinct(ways[i].nodes) /\ Alone(i))
            => /\ err = "none"
               /\ Len(EdgesOfWay(G, i)) = 1
               /\ Chain(EdgesOfWay(G, i)[1].d) = ways[i].nodes
               /\ Len(ways) = 1 => Len(Edges(G)) = 1

\* C2: after build, optional simplify and optional construct_geometries every
\* edge (u, v) has a chain from u to v: its ndref has at least two entries,
\* starts at u and ends at v; its geometry starts at u's registered
\* coordinates and ends at v's
C2_ChainMatchesEndpoints ==
    (/\ err = "none"
     /\ \A i \in 1..Len(ops) : ops[i].op \in {"simplify", "construct_geometries"}
     /\ Calls("simplify") <= 1)
    => \A e \in Range(Edges(G)) :
          /\ e.d.ndref # 0 =>
                /\ Len(Chain(e.d)) >= 2
                /\ Chain(e.d)[1] = e.u
                /\ Last(Chain(e.d)) = e.v
          /\ e.d.geometry # <<>> =>
                /\ e.d.geometry[1] = G.attr[e.u]
                /\ Last(e.d.geometry) = G.attr[e.v]

\* C3: simplify deletes no outgoing edge of a node that is an endpoint of
\* edges of two different ways, and merges no edge across it
C3_BranchPointsSurvive ==
    Simplified =>
        \A n \in Range(prev.G.nodes) :
            Shared(prev.G, n) =>
                /\ \A v \in Nodes : Len(G.ed[<<n, v>>]) >= Len(prev.G.ed[<<n, v>>])
                /\ \A e \in Range(Edges(G)) :
                      \A j \in 2..(Len(Chain(e.d)) - 1) : Chain(e.d)[j] # n

\* C4: after simplify every consecutive node pair of an accepted way is
\* still adjacent, in order, in the ndref of an edge carrying that way's id
C4_NoReferenceDropped ==
    Simplified =>
        \A i \in 1..Len(ways) :
            Accepted(ways[i]) =>
                \A k \in 1..(Len(ways[i].nodes) - 1) :
                    \E e \in Range(EdgesOfWay(G, i)) :
                        \E j \in 1..(Len(Chain(e.d)) - 1) :
                            /\ Chain(e.d)[j] = ways[i].nodes[k]
                            /\ Chain(e.d)[j + 1] = ways[i].nodes[k + 1]

\* C5: build gives an accepted way [n0..nk] exactly k edges, the edge of
\* segment i going from n_i to n_{i+1} with ndref [n_i, n_{i+1}]; a rejected
\* way gives no edge and no node
C5_SegmentCoverage ==
    (ops = <<>>) =>
        /\ Len(Edges(G)) = AcceptedSegments(ways)
        /\ \A i \in 1..Len(ways) :
              IF Accepted(ways[i])
              THEN /\ Len(EdgesOfWay(G, i)) = Len(ways[i].nodes) - 1
                   /\ \A k \in 1..(Len(ways[i].nodes) - 1) :
                         /\ Len(SegmentOfWay(G, i, k - 1)) = 1
                         /\ LET e == SegmentOfWay(G, i, k - 1)[1]
                            IN /\ e.u = ways[i].nodes[k]
                               /\ e.v = ways[i].nodes[k + 1]
                               /\ Chain(e.d) = <<ways[i].nodes[k], ways[i].nodes[k + 1]>>
              ELSE EdgesOfWay(G, i) = <<>>
        /\ \A n \in Range(G.nodes) :
              \E i \in 1..Len(ways) : Accepted(ways[i]) /\ n \in Range(ways[i].nodes)

C5_Witness ==
    /\ ops = <<>>
    /\ \E i \in 1..Len(ways) : Accepted(ways[i]) /\ Len(ways[i].nodes) >= 3
    /\ \E i \in 1..Len(ways) : ~Accepted(ways[i]) /\ Len(ways[i].nodes) >= 2

\* C6: filter_edges returns exactly the edges that satisfy the predicate and
\* exactly their endpoints, with the source's node attributes, and leaves
\* the source as it was
C6_FilterSound ==
    (LastOp = "filter_edges") =>
        LET p == Last(ops).arg
        IN /\ \A u, v \in Nodes :
                 G.ed[<<u, v>>] = SelectSeq(prev.G.ed[<<u, v>>], LAMBDA d : Holds(p, u, v, d))
           /\ \A e \in Range(Edges(G)) : Holds(p, e.u, e.v, e.d)
           /\ \A n \in Nodes : HasNode(G, n) <=> Incident(G, n) # {}
           /\ \A n \in Range(G.nodes) : G.attr[n] = prev.G.attr[n]
           /\ lists = prev.lists

C6_Witness ==
    /\ LastOp = "filter_edges"
    /\ Edges(G) # <<>>
    /\ Len(Edges(G)) < Len(Edges(prev.G))
    /\ \E n \in Range(prev.G.nodes) : ~HasNode(G, n)
    /\ \E u, v \in Nodes : Len(G.ed[<<u, v>>]) >= 2

\* C7: reading back what to_geojson wrote gives the same edges between the
\* same endpoints with the same attributes, geometry and length; the nodes
\* are the edge endpoints only and carry no lon/lat
C7_ExchangeRoundTrip ==
    (LastOp = "from_geojson" /\ err = "none") =>
        /\ \A u, v \in Nodes : G.ed[<<u, v>>] = prev.G.ed[<<u, v>>]
        /\ \A n \in Nodes : HasNode(G, n) <=> Incident(prev.G, n) # {}
        /\ \A n \in Range(G.nodes) : G.attr[n] = <<>>

C7_Witness ==
    /\ LastOp = "from_geojson"
    /\ err = "none"
    /\ Called("simplify")
    /\ \E e \in Range(Edges(G)) : e.u # e.v /\ Len(e.d.geometry) >= 3
    /\ \E u, v \in Nodes : Len(G.ed[<<u, v>>]) >= 2
    /\ \E n \in Range(prev.G.nodes) : ~HasNode(G, n)

\* C8 as stated: a construct_geometries pass that fails on an unresolved
\* reference has modified no edge
C8_GeometryAllOrNothing ==
    (LastOp = "construct_geometries" /\ err = "KeyError") => G = prev.G

\* C8: a construct_geometries pass that fails on an unresolved reference
\* has converted the edges enumerated before the first edge with such a
\* reference (geometry and length set, ndref gone) and has modified neither
\* that edge nor any later one
Unresolved(e) == \E j \in 1..Len(prev.lists[e.d.ndref]) : ~Resolves(prev.G, prev.lists[e.d.ndref][j])

C8_GeometryStopsAtFailure ==
    (LastOp = "construct_geometries" /\ err = "KeyError") =>
        LET old == Edges(prev.G)
            new == Edges(G)
            failing == {i \in 1..Len(old) : Unresolved(old[i])}
        IN /\ Len(new) = Len(old)
           /\ failing # {}
           /\ \A i \in 1..Len(old) :
                 IF \E f \in failing : f <= i
                 THEN new[i] = old[i]
                 ELSE /\ new[i].d.ndref = 0
                      /\ Len(new[i].d.geometry) = Len(prev.lists[old[i].d.ndref])
                      /\ new[i].d.length >= 0

C8_Witness ==
    /\ LastOp = "construct_geometries"
    /\ err = "KeyError"
    /\ Len(Edges(G)) >= 2
    /\ Edges(G)[1].d.geometry # <<>>
    /\ Last(Edges(G)).d.ndref # 0

C10_SimplifyIdempotent ==
    (ops = <<Op("simplify", ""), Op("simplify", "")>>) =>
        /\ err = "none"
        /\ Candidates(prev.G) = <<>>
        /\ G = prev.G
        /\ lists = prev.lists

====
